---- MODULE Spec2Model ----
(***************************************************************************)
(* Model of build.py, the static blog builder (class BlogBuilder).         *)
(*                                                                         *)
(* Strings the program computes with are modelled as sequences of tokens   *)
(* (a token is a record [t, v]: its type and, for numbers, its value), so  *)
(* that the textual transforms (replace, split, rsplit) are computed the   *)
(* way the code computes them.  The output tree is a map from paths to     *)
(* file contents.  git, pandoc and the filesystem are the environment: an  *)
(* operation of theirs on a given input either works or fails, and gives   *)
(* the same outcome whenever it is repeated on that input.                 *)
(***************************************************************************)
EXTENDS Integers, Sequences, FiniteSets, TLC

\* ------------------------------------------------------------------ bounds
MaxFaults == 1      \* environment operations that fail during the runs
MaxRuns == 2        \* how many times run() is invoked on the same tree
MaxDay == 4         \* last calendar day the build clock reaches
FirstBuildDay == 3  \* calendar day of the first build (commits are earlier)

\* ------------------------------------------------------------------ tokens
Tok(t, v) == [t |-> t, v |-> v]

\* rank of a token's first character in string comparison
TokOrd(t) ==
  CASE t = "sp" -> 32 [] t = "plus" -> 43 [] t = "minus" -> 45
    [] t = "dot" -> 46 [] t = "dothtml" -> 47
    [] t = "date" -> 48 [] t = "num" -> 49
    [] t = "colon" -> 58 [] t = "T" -> 84
    [] t = "index" -> 105 [] t = "latest" -> 108
    [] t = "navbottom" -> 110 [] t = "navtop" -> 111
    [] t = "darkmode" -> 100 [] t = "nojekyll" -> 112
    [] OTHER -> 127

TokLess(x, y) ==
  \/ TokOrd(x.t) < TokOrd(y.t)
  \/ TokOrd(x.t) = TokOrd(y.t) /\ x.v < y.v

\* str.__lt__ on token strings: lexicographic, a proper prefix is smaller
RECURSIVE StrLess(_, _)
StrLess(a, b) ==
  IF b = <<>> THEN FALSE
  ELSE IF a = <<>> THEN TRUE
  ELSE IF a[1] = b[1] THEN StrLess(Tail(a), Tail(b))
  ELSE TokLess(a[1], b[1])

\* s.replace(from, to) for one-character tokens
StrReplace(s, from, to) ==
  [i \in DOMAIN s |-> IF s[i].t = from THEN Tok(to, 0) ELSE s[i]]

Positions(s, sep) == {i \in DOMAIN s : s[i].t = sep}

MinOf(S) == CHOOSE x \in S : \A y \in S : x <= y
MaxOf(S) == CHOOSE x \in S : \A y \in S : x >= y

\* s.split(sep)[0]
SplitHead(s, sep) ==
  IF Positions(s, sep) = {} THEN s
  ELSE SubSeq(s, 1, MinOf(Positions(s, sep)) - 1)

\* s.rsplit(sep, 1)[0]
RSplitHead(s, sep) ==
  IF Positions(s, sep) = {} THEN s
  ELSE SubSeq(s, 1, MaxOf(Positions(s, sep)) - 1)

\* s.split()[0] for a string that does not start with white space
SplitWsHead(s) == SplitHead(s, "sp")

RECURSIVE Reverse(_)
Reverse(s) == IF s = <<>> THEN <<>> ELSE Append(Reverse(Tail(s)), Head(s))

\* "%Y-%m-%d %H:%M:%S %z" as printed by git's %ci
CommitDate(day, hh, mm, ss, sign, tz) ==
  << Tok("date", day), Tok("sp", 0), Tok("num", hh), Tok("colon", 0),
     Tok("num", mm), Tok("colon", 0), Tok("num", ss), Tok("sp", 0),
     Tok(sign, 0), Tok("num", tz) >>

\* strftime("%Y-%m-%d") of a clock value
StrfDate(day) == << Tok("date", day) >>

\* ------------------------------------------------------------- file names
DotHtml == Tok("dothtml", 0)
IndexName == << Tok("index", 0), DotHtml >>
LatestName == << Tok("latest", 0), DotHtml >>
NavTopName == << Tok("dot", 0), Tok("navtop", 0), DotHtml >>
NavBottomName == << Tok("dot", 0), Tok("navbottom", 0), DotHtml >>
DarkModeName == << Tok("dot", 0), Tok("darkmode", 0), DotHtml >>
NoJekyllName == << Tok("dot", 0), Tok("nojekyll", 0) >>

\* Path.stem of an .html file name
NameStem(n) == SubSeq(n, 1, Len(n) - 1)

\* fnmatch of "*.html" (pathlib's glob also matches names starting with a dot)
IsHtml(n) == Len(n) >= 1 /\ n[Len(n)] = DotHtml

Path(dir, name) == [dir |-> dir, name |-> name]

\* ------------------------------------------------------------ source tree
BlogDoc(rel, stem) == [root |-> "blogs", rel |-> rel, stem |-> stem]
CollDoc(rel, stem) == [root |-> "collections", rel |-> rel, stem |-> stem]

\* sorted(self.blogs_dir.rglob("*.tex")):
\*   blogs/a/a.tex < blogs/a.tex < blogs/y/p.tex
BlogTex == << BlogDoc(<<"a">>, "a"), BlogDoc(<<>>, "a"), BlogDoc(<<"y">>, "p") >>

\* sorted(self.collections_dir.iterdir())
CollectionNames == << "s", "t" >>

\* sorted(collection_dir.rglob("*.tex")):
\*   collections/s/k/m1.tex < collections/s/m1.tex < collections/s/m2.tex
CollectionTex(c) ==
  IF c = "s"
  THEN << CollDoc(<<"s", "k">>, "m1"), CollDoc(<<"s">>, "m1"), CollDoc(<<"s">>, "m2") >>
  ELSE << CollDoc(<<"t">>, "n") >>

Range(s) == {s[i] : i \in DOMAIN s}

AllDocs == Range(BlogTex) \cup Range(CollectionTex("s")) \cup Range(CollectionTex("t"))

\* output of `git log --follow --format="%H %ci"`: newest commit first
GitLog(doc) ==
  CASE doc = BlogDoc(<<"a">>, "a") ->
         << <<1, CommitDate(1, 10, 0, 0, "plus", 8)>> >>
    [] doc = BlogDoc(<<"y">>, "p") ->
         << <<3, CommitDate(1, 10, 0, 40, "plus", 8)>>,
            <<2, CommitDate(1, 10, 0, 5, "plus", 8)>> >>
    [] doc = CollDoc(<<"s">>, "m1") ->
         << <<4, CommitDate(2, 9, 15, 0, "minus", 5)>> >>
    [] doc = CollDoc(<<"s">>, "m2") ->
         << <<6, CommitDate(2, 11, 30, 0, "plus", 8)>>,
            <<5, CommitDate(1, 10, 0, 0, "plus", 8)>> >>
    [] OTHER -> <<>>

\* `git ls-files --error-unmatch` succeeds
Tracked(doc) == GitLog(doc) # <<>>

\* ----------------------------------------------------- output directories
None == [root |-> "none", rel |-> <<>>, stem |-> ""]

\* tex_file.parent.name
ParentName(doc) == IF doc.rel = <<>> THEN doc.root ELSE doc.rel[Len(doc.rel)]

\* build_article, "Determine output directory"
OutputDir(doc, is_collection) ==
  IF is_collection
  THEN IF ParentName(doc) = doc.stem
       THEN << "docs", "collections", doc.rel[1], doc.stem >>
       ELSE << "docs", "collections", doc.rel[1], doc.stem >>
  ELSE IF ParentName(doc) = doc.stem
       THEN << "docs", "blogs" >> \o doc.rel
       ELSE << "docs", "blogs" >> \o doc.rel \o << doc.stem >>

\* ------------------------------------------------------------- navigation
\* a relative link: go `up` directories, then down, to a file
Href(up, down, name) == [up |-> up, down |-> down, name |-> name]
NoHref == Href(0, <<>>, <<>>)

Part(tag, name, href) == [tag |-> tag, name |-> name, href |-> href]
Rule == Part("hr", "", NoHref)

NavInfo(cname, prev, next, index, total) ==
  [collection_name |-> cname, prev |-> prev, next |-> next,
   index |-> index, total |-> total]
NoNav == NavInfo("", None, None, 0, 0)

\* mutant: the bound of the next link is one too small
MemberNavShortNext(c, i) ==
  LET tex_files == CollectionTex(c)
      prev_file == IF i > 1 THEN tex_files[i - 1] ELSE None
      next_file == IF i < Len(tex_files) - 1 THEN tex_files[i + 1] ELSE None
  IN [collection_name |-> c, prev |-> prev_file, next |-> next_file,
      index |-> i - 1, total |-> Len(tex_files)]

\* build_collections: the nav_info of member i (1-based here, 0-based there)
MemberNav(c, i) ==
  LET tex_files == CollectionTex(c)
      prev_file == IF i > 1 THEN tex_files[i - 1] ELSE None
      next_file == IF i < Len(tex_files) THEN tex_files[i + 1] ELSE None
  IN NavInfo(c, prev_file, next_file, i - 1, Len(tex_files))

generate_simple_nav_html ==
  << Rule,
     Part("nav", "", NoHref),
     Part("back", "", Href(3, <<>>, IndexName)),
     Part("/nav", "", NoHref) >>

\* mutant: the rule is put on the other side of the block
generate_nav_html_swapped(nav_info, position) ==
  LET prev_file == nav_info.prev
      next_file == nav_info.next
  IN (IF position = "top" THEN << Rule >> ELSE <<>>)
     \o << Part("nav", "", NoHref),
           Part("label", nav_info.collection_name, NoHref),
           Part("p", "", NoHref) >>
     \o (IF prev_file # None
         THEN << Part("prev", prev_file.stem,
                      Href(1, << prev_file.stem >>, LatestName)),
                 Part("bar", "", NoHref) >>
         ELSE <<>>)
     \o << Part("cindex", "", Href(1, <<>>, IndexName)) >>
     \o (IF next_file # None
         THEN << Part("bar", "", NoHref),
                 Part("next", next_file.stem,
                      Href(1, << next_file.stem >>, LatestName)) >>
         ELSE <<>>)
     \o << Part("/p", "", NoHref), Part("/nav", "", NoHref) >>
     \o (IF position = "bottom" THEN << Rule >> ELSE <<>>)

generate_nav_html(nav_info, position) ==
  LET prev_file == nav_info.prev
      next_file == nav_info.next
  IN (IF position = "bottom" THEN << Rule >> ELSE <<>>)
     \o << Part("nav", "", NoHref),
           Part("label", nav_info.collection_name, NoHref),
           Part("p", "", NoHref) >>
     \o (IF prev_file # None
         THEN << Part("prev", prev_file.stem,
                      Href(1, << prev_file.stem >>, LatestName)),
                 Part("bar", "", NoHref) >>
         ELSE <<>>)
     \o << Part("cindex", "", Href(1, <<>>, IndexName)) >>
     \o (IF next_file # None
         THEN << Part("bar", "", NoHref),
                 Part("next", next_file.stem,
                      Href(1, << next_file.stem >>, LatestName)) >>
         ELSE <<>>)
     \o << Part("/p", "", NoHref), Part("/nav", "", NoHref) >>
     \o (IF position = "top" THEN << Rule >> ELSE <<>>)

\* ---------------------------------------------------------- file contents
Fragment(parts) == [kind |-> "fragment", parts |-> parts]
DarkCss == [kind |-> "css"]
Empty == [kind |-> "empty"]

\* text of the working-tree file, and of the file at a commit
WorkingTree(doc) == [doc |-> doc, rev |-> 0]
Blob(doc, hash) == [doc |-> doc, rev |-> hash]

Exists(f, p) == p \in DOMAIN f
Write(f, p, c) == [q \in DOMAIN f \cup {p} |-> IF q = p THEN c ELSE f[q]]
Unlink(f, p) == [q \in DOMAIN f \ {p} |-> f[q]]

\* the include files pandoc reads when it is run
Include(f, present, p) ==
  IF present /\ Exists(f, p) THEN f[p].parts ELSE <<>>

\* pandoc_convert_content: the page pandoc writes for these arguments
Pandoc(f, content, title, date, nav_top, nav_bottom, out) ==
  [kind |-> "page", body |-> content, title |-> title, date |-> date,
   header |-> Exists(f, Path(<<"docs">>, DarkModeName)),
   before |-> Include(f, nav_top, Path(out, NavTopName)),
   after |-> Include(f, nav_bottom, Path(out, NavBottomName))]

\* ------------------------------------------------------------ version index
HtmlFiles(f, dir) == {p.name : p \in {q \in DOMAIN f : q.dir = dir /\ IsHtml(q.name)}}

\* mutant: reverse=True is forgotten
RECURSIVE SortedAscending(_)
SortedAscending(S) ==
  IF S = {} THEN <<>>
  ELSE LET m == CHOOSE x \in S : \A y \in S : ~StrLess(y, x)
       IN << m >> \o SortedAscending(S \ {m})

\* sorted(names, reverse=True)
RECURSIVE SortedReverse(_)
SortedReverse(S) ==
  IF S = {} THEN <<>>
  ELSE LET m == CHOOSE x \in S : \A y \in S : ~StrLess(x, y)
       IN << m >> \o SortedReverse(S \ {m})

\* mutant: the version index itself is not excluded from the listing
VersionListingWithIndex(f, dir) ==
  SortedReverse({n \in HtmlFiles(f, dir) : n # LatestName})

VersionListing(f, dir) ==
  SortedReverse({n \in HtmlFiles(f, dir) : n # IndexName /\ n # LatestName})

generate_version_index(f, dir, article_name) ==
  LET html_files == VersionListing(f, dir)
  IN Write(f, Path(dir, IndexName),
           [kind |-> "vindex", title |-> article_name,
            css |-> f[Path(<<"docs">>, DarkModeName)],
            latest |-> Href(0, <<>>, LatestName),
            list |-> [i \in DOMAIN html_files |->
                        [href |-> Href(0, <<>>, html_files[i]),
                         version |-> NameStem(html_files[i])]],
            back |-> Href(3, <<>>, IndexName)])

\* ------------------------------------------------------- history resolver
\* get_git_history: oldest first; [] for an untracked file, and [] when
\* the query raises (ok = FALSE), which the except clause catches
get_git_history(doc, ok) ==
  IF ~Tracked(doc) THEN <<>>
  ELSE IF ok THEN Reverse(GitLog(doc))
  ELSE <<>>

\* mutant: versions[0] is taken for versions[-1]
LastDateOfFirst(versions, now) ==
  IF versions # <<>> THEN SplitWsHead(versions[1][2])
  ELSE StrfDate(now)

\* versions[-1][1].split()[0], or today's date when there is no history
LastDate(versions, now) ==
  IF versions # <<>> THEN SplitWsHead(versions[Len(versions)][2])
  ELSE StrfDate(now)

\* mutant: the seconds are kept (no rsplit)
version_timestamp_seconds(commit_date) ==
  SplitHead(StrReplace(commit_date, "sp", "T"), "plus")

\* build_article: the slug of a revision page
version_timestamp(commit_date) ==
  RSplitHead(SplitHead(StrReplace(commit_date, "sp", "T"), "plus"), "colon")

display_date(commit_date) == SplitWsHead(commit_date)

PageName(slug) == slug \o << DotHtml >>

\* -------------------------------------------------------- collection index
generate_collection_index(f, c, gitok, now) ==
  LET tex_files == CollectionTex(c)
  IN Write(f, Path(<< "docs", "collections", c >>, IndexName),
           [kind |-> "cindex", title |-> c,
            items |-> [i \in DOMAIN tex_files |->
                         [name |-> tex_files[i].stem,
                          href |-> Href(0, << tex_files[i].stem >>, LatestName),
                          date |-> LastDate(get_git_history(tex_files[i],
                                                            gitok[tex_files[i]]), now),
                          history |-> Href(0, << tex_files[i].stem >>, IndexName)]],
            back |-> Href(2, <<>>, IndexName)])

\* -------------------------------------------------------------- site index
\* `git log -1 --format=%cd --date=format:"%Y-%m-%d %H:%M:%S"`
RepoLastCommit ==
  << Tok("date", 2), Tok("sp", 0), Tok("num", 11), Tok("colon", 0),
     Tok("num", 30), Tok("colon", 0), Tok("num", 0) >>

\* strftime("%Y-%m-%d %H:%M:%S") of the clock; the time of day is not modelled
StrfDateTime(day) == << Tok("date", day), Tok("sp", 0), Tok("clock", 0) >>

\* the largest date among the members that have history, else today
RECURSIVE LatestOf(_, _, _, _)
LatestOf(docs, gitok, latest_date, now) ==
  IF docs = <<>>
  THEN (IF latest_date = <<>> THEN StrfDate(now) ELSE latest_date)
  ELSE LET versions == get_git_history(Head(docs), gitok[Head(docs)])
           file_date == LastDate(versions, now)
       IN IF versions # <<>> /\ (latest_date = <<>> \/ StrLess(latest_date, file_date))
          THEN LatestOf(Tail(docs), gitok, file_date, now)
          ELSE LatestOf(Tail(docs), gitok, latest_date, now)

PostUrl(doc) ==
  IF ParentName(doc) = doc.stem
  THEN Href(0, << "blogs" >> \o doc.rel, IndexName)
  ELSE Href(0, << "blogs" >> \o doc.rel \o << doc.stem >>, IndexName)

generate_main_index(f, lastok, gitok, now) ==
  LET posts == Reverse(BlogTex)
  IN Write(f, Path(<< "docs" >>, IndexName),
           [kind |-> "site",
            updated |-> IF lastok THEN RepoLastCommit ELSE StrfDateTime(now),
            collections |-> [i \in DOMAIN CollectionNames |->
                               [name |-> CollectionNames[i],
                                href |-> Href(0, << "collections", CollectionNames[i] >>,
                                              IndexName),
                                date |-> LatestOf(CollectionTex(CollectionNames[i]),
                                                  gitok, <<>>, now),
                                count |-> Len(CollectionTex(CollectionNames[i]))]],
            posts |-> [i \in DOMAIN posts |->
                         [name |-> posts[i].stem,
                          href |-> PostUrl(posts[i]),
                          date |-> LastDate(get_git_history(posts[i], gitok[posts[i]]),
                                            now)]]])

\* ================================================================== state
VARIABLES
  fs,       \* the output tree: path -> content of the file
  today,    \* the build clock (calendar day)
  phase,    \* where run() is: start, blogs, collections, main, done, aborted
  bi,       \* build_regular_blogs: index of the next post
  ci,       \* build_collections: index of the current collection
  mi,       \* build_collections: index of the next member
  art,      \* the build_article call in progress
  failed,   \* environment: operations that fail
  passed,   \* environment: operations that have worked
  runs,     \* number of run() invocations so far
  prev,     \* the output tree as the previous run() left it
  log,      \* history of this run: what was started and written
  call      \* history of this build_article call

vars == << fs, today, phase, bi, ci, mi, art, failed, passed, runs, prev, log, call >>

NoArt ==
  [active |-> FALSE, doc |-> None, is_collection |-> FALSE, nav_info |-> NoNav,
   has_nav |-> FALSE, article_name |-> "", output_dir |-> <<>>, versions |-> <<>>,
   k |-> 0, nav_top_file |-> FALSE, nav_bottom_file |-> FALSE,
   step |-> "none", raising |-> FALSE]

\* entry of build_article: the output directory is computed first
NewArt(doc, is_collection, has_nav, nav_info) ==
  [active |-> TRUE, doc |-> doc, is_collection |-> is_collection,
   nav_info |-> nav_info, has_nav |-> has_nav, article_name |-> doc.stem,
   output_dir |-> OutputDir(doc, is_collection), versions |-> <<>>,
   k |-> 1, nav_top_file |-> FALSE, nav_bottom_file |-> FALSE,
   step |-> "mkdir", raising |-> FALSE]

NoLog == [started |-> <<>>, vindex |-> {}, cindex |-> {}, site |-> FALSE,
          skips |-> {}, cause |-> "none", culprit |-> None]
NoCall == [attempted |-> {}, skipped |-> {}, wrote |-> {}, before |-> {},
           raised |-> "none", now |-> 0]

\* ------------------------------------------------------------ environment
Op(name, doc, rev) == << name, doc, rev >>

CanFail(p) == p \in failed \/ (p \notin passed /\ Cardinality(failed) < MaxFaults)
CanPass(p) == p \notin failed

Decide(F, P) ==
  /\ failed' = failed \cup F
  /\ passed' = passed \cup P

\* the outcome of the history query of each document, as the environment fixes it
GitOk == [d \in AllDocs |-> Op("git", d, 0) \notin failed]

\* ---------------------------------------------- steps of build_article
\* output_dir.mkdir(parents=True, exist_ok=True): not inside any try
AfterMkdir(a, ok) ==
  IF ok THEN [a EXCEPT !.step = "history"]
  ELSE [a EXCEPT !.step = "exit", !.raising = TRUE]

\* mutant: a failed history query leaves build_article
AfterHistoryRaises(a, ok) ==
  IF ok THEN [a EXCEPT !.step = "nav", !.versions = get_git_history(a.doc, ok)]
  ELSE [a EXCEPT !.step = "exit", !.raising = TRUE]

\* versions = self.get_git_history(tex_file): never raises
AfterHistory(a, ok) ==
  [a EXCEPT !.step = "nav", !.versions = get_git_history(a.doc, ok)]

\* "Pre-generate navigation files": failing is none, top or bottom; created
\* tells whether open() had created the file before the write failed
NavFiles(f, a, failing, created) ==
  LET top == Path(a.output_dir, NavTopName)
      bottom == Path(a.output_dir, NavBottomName)
      partial == Fragment(<<>>)
  IN IF a.has_nav
     THEN IF failing = "top"
          THEN (IF created THEN Write(f, top, partial) ELSE f)
          ELSE LET f1 == Write(f, top, Fragment(generate_nav_html(a.nav_info, "top")))
               IN IF failing = "bottom"
                  THEN (IF created THEN Write(f1, bottom, partial) ELSE f1)
                  ELSE Write(f1, bottom,
                             Fragment(generate_nav_html(a.nav_info, "bottom")))
     ELSE IF ~a.is_collection
          THEN IF failing = "bottom"
               THEN (IF created THEN Write(f, bottom, partial) ELSE f)
               ELSE Write(f, bottom, Fragment(generate_simple_nav_html))
          ELSE f

\* the writes are before the try statement: a failure leaves build_article
AfterNav(a, failing) ==
  IF failing = "none"
  THEN [a EXCEPT !.step = "versions",
                 !.nav_top_file = a.has_nav,
                 !.nav_bottom_file = a.has_nav \/ ~a.is_collection]
  ELSE [a EXCEPT !.step = "exit", !.raising = TRUE]

\* one round of "for commit_hash, commit_date in versions"
RevisionFile(a) == Path(a.output_dir, PageName(version_timestamp(a.versions[a.k][2])))

Revision(f, a, ok) ==
  LET commit_hash == a.versions[a.k][1]
      commit_date == a.versions[a.k][2]
  IN IF ok
     THEN Write(f, RevisionFile(a),
                Pandoc(f, Blob(a.doc, commit_hash), a.article_name,
                       display_date(commit_date), a.nav_top_file, a.nav_bottom_file,
                       a.output_dir))
     ELSE f

\* mutant: the version index is generated at the end of the loop, before
\* latest.html
AfterRevisionIndexFirst(a, ok) ==
  IF a.k = Len(a.versions) THEN [a EXCEPT !.k = a.k + 1, !.step = "vindex"]
  ELSE [a EXCEPT !.k = a.k + 1]

\* mutant: a failed revision is not caught
AfterRevisionRaises(a, ok) ==
  IF ok THEN [a EXCEPT !.k = a.k + 1]
  ELSE [a EXCEPT !.step = "finally", !.raising = TRUE]

\* "except Exception as e: print(Warning...)": the loop goes on
AfterRevision(a, ok) == [a EXCEPT !.k = a.k + 1]

\* mutant: latest.html is rendered only in the branch that has history
LatestOnlyWithHistory(f, a, ok, now) ==
  IF ok /\ a.versions # <<>>
  THEN Write(f, Path(a.output_dir, LatestName),
             Pandoc(f, WorkingTree(a.doc), a.article_name,
                    LastDate(a.versions, now), a.nav_top_file, a.nav_bottom_file,
                    a.output_dir))
  ELSE f

\* pandoc_convert(tex_file, output_dir / "latest.html", ...), in both branches
Latest(f, a, ok, now) ==
  IF ok
  THEN Write(f, Path(a.output_dir, LatestName),
             Pandoc(f, WorkingTree(a.doc), a.article_name,
                    LastDate(a.versions, now), a.nav_top_file, a.nav_bottom_file,
                    a.output_dir))
  ELSE f

\* mutant: a failed latest.html is swallowed like a failed revision
AfterLatestSwallows(a, ok) == [a EXCEPT !.step = "finally", !.raising = FALSE]

\* a failure is not caught: control goes to the finally clause, raising
AfterLatest(a, ok) == [a EXCEPT !.step = "finally", !.raising = ~ok]

\* "finally: Clean up nav files"
Cleanup(f, a) ==
  LET top == Path(a.output_dir, NavTopName)
      bottom == Path(a.output_dir, NavBottomName)
      f1 == IF a.nav_top_file /\ Exists(f, top) THEN Unlink(f, top) ELSE f
  IN IF a.nav_bottom_file /\ Exists(f1, bottom) THEN Unlink(f1, bottom) ELSE f1

AfterCleanup(a) ==
  IF a.raising THEN [a EXCEPT !.step = "exit"] ELSE [a EXCEPT !.step = "vindex"]

\* ================================================================ actions
Init ==
  /\ fs = <<>>
  /\ today = FirstBuildDay
  /\ phase = "start"
  /\ bi = 1 /\ ci = 1 /\ mi = 1
  /\ art = NoArt
  /\ failed = {} /\ passed = {}
  /\ runs = 0
  /\ prev = [tree |-> <<>>, phase |-> "start"]
  /\ log = NoLog
  /\ call = NoCall

\* the clock advances
Tick ==
  /\ today < MaxDay
  /\ today' = today + 1
  /\ UNCHANGED << fs, phase, bi, ci, mi, art, failed, passed, runs, prev, log, call >>

\* run(), up to the call of build_regular_blogs
RunBegin ==
  /\ phase \in {"start", "done", "aborted"}
  /\ runs < MaxRuns
  /\ runs' = runs + 1
  /\ prev' = [tree |-> fs, phase |-> phase]
  /\ fs' = Write(Write(fs, Path(<< "docs" >>, NoJekyllName), Empty),
                 Path(<< "docs" >>, DarkModeName), DarkCss)
  /\ phase' = "blogs"
  /\ bi' = 1 /\ ci' = 1 /\ mi' = 1
  /\ art' = NoArt
  /\ log' = NoLog
  /\ call' = NoCall
  /\ UNCHANGED << today, failed, passed >>

Enter(doc, is_collection, has_nav, nav_info) ==
  /\ art' = NewArt(doc, is_collection, has_nav, nav_info)
  /\ log' = [log EXCEPT !.started = Append(@, doc)]
  /\ call' = [NoCall EXCEPT !.before = HtmlFiles(fs, OutputDir(doc, is_collection))]

\* build_regular_blogs: the next post
BuildBlog ==
  /\ phase = "blogs" /\ ~art.active
  /\ bi <= Len(BlogTex)
  /\ Enter(BlogTex[bi], FALSE, FALSE, NoNav)
  /\ UNCHANGED << fs, today, phase, bi, ci, mi, failed, passed, runs, prev >>

BlogsDone ==
  /\ phase = "blogs" /\ ~art.active
  /\ bi > Len(BlogTex)
  /\ phase' = "collections"
  /\ UNCHANGED << fs, today, bi, ci, mi, art, failed, passed, runs, prev, log, call >>

\* build_collections: the next member of the current collection
BuildMember ==
  /\ phase = "collections" /\ ~art.active
  /\ ci <= Len(CollectionNames)
  /\ mi <= Len(CollectionTex(CollectionNames[ci]))
  /\ Enter(CollectionTex(CollectionNames[ci])[mi], TRUE, TRUE,
           MemberNav(CollectionNames[ci], mi))
  /\ UNCHANGED << fs, today, phase, bi, ci, mi, failed, passed, runs, prev >>

\* build_collections: the members are built, the collection index is written
CollectionIndex ==
  /\ phase = "collections" /\ ~art.active
  /\ ci <= Len(CollectionNames)
  /\ mi > Len(CollectionTex(CollectionNames[ci]))
  /\ fs' = generate_collection_index(fs, CollectionNames[ci], GitOk, today)
  /\ log' = [log EXCEPT !.cindex = @ \cup {CollectionNames[ci]}]
  /\ ci' = ci + 1
  /\ mi' = 1
  /\ UNCHANGED << today, phase, bi, art, failed, passed, runs, prev, call >>

CollectionsDone ==
  /\ phase = "collections" /\ ~art.active
  /\ ci > Len(CollectionNames)
  /\ phase' = "main"
  /\ UNCHANGED << fs, today, bi, ci, mi, art, failed, passed, runs, prev, log, call >>

\* generate_main_index, and the end of run()
MainIndex ==
  /\ phase = "main"
  /\ \E lastok \in BOOLEAN :
       /\ IF lastok THEN CanPass(Op("gitlast", None, 0))
                    ELSE CanFail(Op("gitlast", None, 0))
       /\ IF lastok THEN Decide({}, {Op("gitlast", None, 0)})
                    ELSE Decide({Op("gitlast", None, 0)}, {})
       /\ fs' = generate_main_index(fs, lastok, GitOk, today)
  /\ log' = [log EXCEPT !.site = TRUE]
  /\ phase' = "done"
  /\ UNCHANGED << today, bi, ci, mi, art, runs, prev, call >>

\* ---- build_article
MkdirOk ==
  /\ art.active /\ art.step = "mkdir"
  /\ CanPass(Op("mkdir", art.doc, 0))
  /\ Decide({}, {Op("mkdir", art.doc, 0)})
  /\ art' = AfterMkdir(art, TRUE)
  /\ UNCHANGED << fs, today, phase, bi, ci, mi, runs, prev, log, call >>

MkdirFail ==
  /\ art.active /\ art.step = "mkdir"
  /\ CanFail(Op("mkdir", art.doc, 0))
  /\ Decide({Op("mkdir", art.doc, 0)}, {})
  /\ art' = AfterMkdir(art, FALSE)
  /\ call' = [call EXCEPT !.raised = "mkdir"]
  /\ UNCHANGED << fs, today, phase, bi, ci, mi, runs, prev, log >>

HistoryOk ==
  /\ art.active /\ art.step = "history"
  /\ CanPass(Op("git", art.doc, 0))
  /\ Decide({}, {Op("git", art.doc, 0)})
  /\ art' = AfterHistory(art, TRUE)
  /\ UNCHANGED << fs, today, phase, bi, ci, mi, runs, prev, log, call >>

\* the query raises (git missing, `git log` exits non-zero)
HistoryFail ==
  /\ art.active /\ art.step = "history"
  /\ Tracked(art.doc)
  /\ CanFail(Op("git", art.doc, 0))
  /\ Decide({Op("git", art.doc, 0)}, {})
  /\ art' = AfterHistory(art, FALSE)
  /\ UNCHANGED << fs, today, phase, bi, ci, mi, runs, prev, log, call >>

NavOk ==
  /\ art.active /\ art.step = "nav"
  /\ art.has_nav => CanPass(Op("navtop", art.doc, 0))
  /\ CanPass(Op("navbottom", art.doc, 0))
  /\ Decide({}, {Op("navbottom", art.doc, 0)}
                  \cup (IF art.has_nav THEN {Op("navtop", art.doc, 0)} ELSE {}))
  /\ fs' = NavFiles(fs, art, "none", FALSE)
  /\ art' = AfterNav(art, "none")
  /\ UNCHANGED << today, phase, bi, ci, mi, runs, prev, log, call >>

NavTopFail ==
  /\ art.active /\ art.step = "nav"
  /\ art.has_nav
  /\ CanFail(Op("navtop", art.doc, 0))
  /\ Decide({Op("navtop", art.doc, 0)}, {})
  /\ \E created \in BOOLEAN : fs' = NavFiles(fs, art, "top", created)
  /\ art' = AfterNav(art, "top")
  /\ call' = [call EXCEPT !.raised = "nav"]
  /\ UNCHANGED << today, phase, bi, ci, mi, runs, prev, log >>

NavBottomFail ==
  /\ art.active /\ art.step = "nav"
  /\ art.has_nav \/ ~art.is_collection
  /\ art.has_nav => CanPass(Op("navtop", art.doc, 0))
  /\ CanFail(Op("navbottom", art.doc, 0))
  /\ Decide({Op("navbottom", art.doc, 0)},
            IF art.has_nav THEN {Op("navtop", art.doc, 0)} ELSE {})
  /\ \E created \in BOOLEAN : fs' = NavFiles(fs, art, "bottom", created)
  /\ art' = AfterNav(art, "bottom")
  /\ call' = [call EXCEPT !.raised = "nav"]
  /\ UNCHANGED << today, phase, bi, ci, mi, runs, prev, log >>

InLoop == art.active /\ art.step = "versions" /\ art.k <= Len(art.versions)

Show == Op("show", art.doc, art.versions[art.k][1])
Conv == Op("pandoc", art.doc, art.versions[art.k][1])

RevisionOk ==
  /\ InLoop
  /\ CanPass(Show) /\ CanPass(Conv)
  /\ Decide({}, {Show, Conv})
  /\ fs' = Revision(fs, art, TRUE)
  /\ art' = AfterRevision(art, TRUE)
  /\ call' = [call EXCEPT !.attempted = @ \cup {art.k},
                          !.wrote = @ \cup {RevisionFile(art).name}]
  /\ UNCHANGED << today, phase, bi, ci, mi, runs, prev, log >>

\* get_file_at_commit raises
RevisionFetchFail ==
  /\ InLoop
  /\ CanFail(Show)
  /\ Decide({Show}, {})
  /\ fs' = Revision(fs, art, FALSE)
  /\ art' = AfterRevision(art, FALSE)
  /\ call' = [call EXCEPT !.attempted = @ \cup {art.k}, !.skipped = @ \cup {art.k}]
  /\ log' = [log EXCEPT !.skips = @ \cup {<< art.doc, art.k >>}]
  /\ UNCHANGED << today, phase, bi, ci, mi, runs, prev >>

\* pandoc exits non-zero on the revision's text
RevisionRenderFail ==
  /\ InLoop
  /\ CanPass(Show) /\ CanFail(Conv)
  /\ Decide({Conv}, {Show})
  /\ fs' = Revision(fs, art, FALSE)
  /\ art' = AfterRevision(art, FALSE)
  /\ call' = [call EXCEPT !.attempted = @ \cup {art.k}, !.skipped = @ \cup {art.k}]
  /\ log' = [log EXCEPT !.skips = @ \cup {<< art.doc, art.k >>}]
  /\ UNCHANGED << today, phase, bi, ci, mi, runs, prev >>

AtLatest == art.active /\ art.step = "versions" /\ art.k > Len(art.versions)

LatestOk ==
  /\ AtLatest
  /\ CanPass(Op("read", art.doc, 0)) /\ CanPass(Op("pandoc", art.doc, 0))
  /\ Decide({}, {Op("read", art.doc, 0), Op("pandoc", art.doc, 0)})
  /\ fs' = Latest(fs, art, TRUE, today)
  /\ art' = AfterLatest(art, TRUE)
  /\ call' = [call EXCEPT !.attempted = @ \cup {0}, !.wrote = @ \cup {LatestName},
                          !.now = today]
  /\ UNCHANGED << today, phase, bi, ci, mi, runs, prev, log >>

\* open(input_file) raises
LatestReadFail ==
  /\ AtLatest
  /\ CanFail(Op("read", art.doc, 0))
  /\ Decide({Op("read", art.doc, 0)}, {})
  /\ fs' = Latest(fs, art, FALSE, today)
  /\ art' = AfterLatest(art, FALSE)
  /\ call' = [call EXCEPT !.attempted = @ \cup {0}, !.raised = "read"]
  /\ UNCHANGED << today, phase, bi, ci, mi, runs, prev, log >>

\* pandoc exits non-zero on the working-tree text
LatestRenderFail ==
  /\ AtLatest
  /\ CanPass(Op("read", art.doc, 0)) /\ CanFail(Op("pandoc", art.doc, 0))
  /\ Decide({Op("pandoc", art.doc, 0)}, {Op("read", art.doc, 0)})
  /\ fs' = Latest(fs, art, FALSE, today)
  /\ art' = AfterLatest(art, FALSE)
  /\ call' = [call EXCEPT !.attempted = @ \cup {0}, !.raised = "pandoc"]
  /\ UNCHANGED << today, phase, bi, ci, mi, runs, prev, log >>

Finally ==
  /\ art.active /\ art.step = "finally"
  /\ fs' = Cleanup(fs, art)
  /\ art' = AfterCleanup(art)
  /\ UNCHANGED << today, phase, bi, ci, mi, failed, passed, runs, prev, log, call >>

VersionIndex ==
  /\ art.active /\ art.step = "vindex"
  /\ fs' = generate_version_index(fs, art.output_dir, art.article_name)
  /\ art' = [art EXCEPT !.step = "exit"]
  /\ log' = [log EXCEPT !.vindex = @ \cup {art.doc}]
  /\ UNCHANGED << today, phase, bi, ci, mi, failed, passed, runs, prev, call >>

\* build_article returns to the loop that called it
Return ==
  /\ art.active /\ art.step = "exit" /\ ~art.raising
  /\ art' = NoArt
  /\ IF phase = "blogs"
     THEN bi' = bi + 1 /\ mi' = mi
     ELSE mi' = mi + 1 /\ bi' = bi
  /\ UNCHANGED << fs, today, phase, ci, failed, passed, runs, prev, log, call >>

\* the exception leaves build_article, its caller and run()
Propagate ==
  /\ art.active /\ art.step = "exit" /\ art.raising
  /\ art' = NoArt
  /\ phase' = "aborted"
  /\ log' = [log EXCEPT !.cause = call.raised, !.culprit = art.doc]
  /\ UNCHANGED << fs, today, bi, ci, mi, failed, passed, runs, prev, call >>

Next ==
  \/ Tick
  \/ RunBegin
  \/ BuildBlog
  \/ BlogsDone
  \/ BuildMember
  \/ CollectionIndex
  \/ CollectionsDone
  \/ MainIndex
  \/ MkdirOk
  \/ MkdirFail
  \/ HistoryOk
  \/ HistoryFail
  \/ NavOk
  \/ NavTopFail
  \/ NavBottomFail
  \/ RevisionOk
  \/ RevisionFetchFail
  \/ RevisionRenderFail
  \/ LatestOk
  \/ LatestReadFail
  \/ LatestRenderFail
  \/ Finally
  \/ VersionIndex
  \/ Return
  \/ Propagate

Spec == Init /\ [][Next]_vars

\* ================================================================= claims
\* build_article has just returned normally (the version index is written)
Completed == art.active /\ art.step = "exit" /\ ~art.raising

\* no build_article call is in progress
Quiet == ~art.active

\* the .html files of a directory that are no navigation fragments
Kept(S) == S \ {NavTopName, NavBottomName}

Pages(f, dir) == Kept(HtmlFiles(f, dir)) \ {IndexName}

\* the revisions of the running call that were rendered
Rendered == (1 .. Len(art.versions)) \ call.skipped

SlugPages(K) == {PageName(version_timestamp(art.versions[k][2])) : k \in K}

\* C1 (as stated): after build_article completes for a document with N
\* revisions (the list get_git_history returned), its output directory holds
\* exactly N + 1 rendered pages (one per revision plus latest.html) and
\* exactly one version index index.html.
C1_ExactlyNPlusOne ==
  Completed =>
    /\ Cardinality(Pages(fs, art.output_dir)) = Len(art.versions) + 1
    /\ IndexName \in HtmlFiles(fs, art.output_dir)

\* C1 (amended): after build_article completes normally for a document with N
\* revisions (the list get_git_history returned), the output directory holds
\* latest.html, index.html and one page per distinct slug among the revisions
\* that were fetched and rendered, and besides these only what was there
\* before the call (the temporary navigation fragments aside); so the call
\* leaves at most N + 1 pages of the document, and N + 1 of them exactly when
\* no revision failed and no two revisions share a slug.
C1_PagesOfRenderedRevisions ==
  Completed =>
    LET mine == SlugPages(Rendered) \cup {LatestName}
        N == Len(art.versions)
        distinct == \A i, j \in 1 .. N :
                      version_timestamp(art.versions[i][2])
                        = version_timestamp(art.versions[j][2]) => i = j
    IN /\ Kept(HtmlFiles(fs, art.output_dir))
            = Kept(call.before) \cup mine \cup {IndexName}
       /\ \A n \in mine : fs[Path(art.output_dir, n)].kind = "page"
                          /\ fs[Path(art.output_dir, n)].title = art.doc.stem
       /\ fs[Path(art.output_dir, IndexName)].kind = "vindex"
       /\ Cardinality(mine) <= N + 1
       /\ Cardinality(mine) = N + 1 <=> (call.skipped = {} /\ distinct)

\* C1 witness: a document with two revisions in distinct minutes completes in
\* an empty directory with both rendered
C1_Witness ==
  /\ Completed
  /\ call.before = {}
  /\ Len(art.versions) = 2
  /\ call.skipped = {}
  /\ Cardinality(Pages(fs, art.output_dir)) = 3

\* C2: when no build_article call is running, no .nav-top.html and no
\* .nav-bottom.html is left anywhere in the output tree.
C2_NoFragmentLeft ==
  Quiet => \A p \in DOMAIN fs : p.name # NavTopName /\ p.name # NavBottomName

\* ---- C3
\* run() has completed, and so had the run before it
ReRun == phase = "done" /\ prev.phase = "done"

SiteIndex == Path(<< "docs" >>, IndexName)

\* the history of a document as get_git_history resolves it in this environment
Resolved(d) == get_git_history(d, GitOk[d])

\* a latest.html whose date is the build date
BuildDatedLatest(f, p) == p.name = LatestName /\ Resolved(f[p].body.doc) = <<>>

\* a collection index that lists a member without history
BuildDatedCollectionIndex(f, p) ==
  /\ f[p].kind = "cindex"
  /\ \E d \in Range(CollectionTex(f[p].title)) : Resolved(d) = <<>>

\* C3 (as stated): a second complete build of the unchanged tree gives the
\* same files with the same content, except the site index and every
\* latest.html dated with the build date; so all version indexes and all
\* collection indexes are the same.
C3_OnlySiteAndLatestDiffer ==
  ReRun =>
    /\ DOMAIN fs = DOMAIN prev.tree
    /\ \A p \in DOMAIN fs :
         (p # SiteIndex /\ ~BuildDatedLatest(fs, p)) => fs[p] = prev.tree[p]

\* C3 (amended): a second complete build of the unchanged tree, in which git
\* and pandoc behave as in the first, gives the same files with the same
\* content, except the site index, every latest.html dated with the build date
\* and every collection index that lists a member without history (its date
\* is the build date); every version index and every revision page is the same.
C3_BuildDateFilesDiffer ==
  ReRun =>
    /\ DOMAIN fs = DOMAIN prev.tree
    /\ \A p \in DOMAIN fs :
         (p # SiteIndex /\ ~BuildDatedLatest(fs, p)
            /\ ~BuildDatedCollectionIndex(fs, p)) => fs[p] = prev.tree[p]
    /\ \A p \in DOMAIN fs :
         fs[p].kind = "vindex" => fs[p] = prev.tree[p]

\* C3 witness: the second build has completed on a later day than the first
C3_Witness ==
  /\ ReRun
  /\ fs[SiteIndex] # prev.tree[SiteIndex]
  /\ \E p \in DOMAIN fs : fs[p].kind = "vindex" /\ Len(fs[p].list) = 2

\* ---- C4
\* the order in which run() builds the documents
BuildOrder == BlogTex \o CollectionTex("s") \o CollectionTex("t")

\* C4: once a revision of the running build_article call has failed, the loop
\* goes on with the next revision, every revision and latest.html are
\* attempted before the call ends, the version index is generated unless
\* latest.html fails, and a build with skipped revisions that ends, ends having
\* built every document unless something other than a revision stopped it.
C4_FailedRevisionSkipped ==
  /\ (art.active /\ call.skipped # {}) =>
       /\ art.step \in {"versions", "finally", "vindex", "exit"}
       /\ art.step = "versions" =>
            ~art.raising /\ call.attempted = 1 .. (art.k - 1)
       /\ art.step \in {"finally", "vindex", "exit"} =>
            call.attempted = (1 .. Len(art.versions)) \cup {0}
       /\ (art.step = "exit" /\ call.raised = "none") =>
            ~art.raising /\ art.doc \in log.vindex
       /\ art.raising => call.raised \in {"read", "pandoc"}
  /\ (phase = "done" /\ log.skips # {}) =>
       log.started = BuildOrder /\ log.vindex = AllDocs
  /\ (phase = "aborted" /\ log.skips # {}) =>
       log.cause \in {"mkdir", "nav", "read", "pandoc"}

\* C4 witness: the first of two revisions failed, and the build completed
C4_Witness ==
  /\ phase = "done"
  /\ \E d \in AllDocs : Len(GitLog(d)) = 2 /\ << d, 1 >> \in log.skips
                        /\ Cardinality(Pages(fs, OutputDir(d, d.root = "collections"))) = 2

\* ---- C5
\* C5: a failure of mkdir, of reading the working-tree file or of rendering
\* latest.html leaves build_article as an exception and ends run(): no later
\* article is started, the article's version index is not generated in this
\* run, no collection index is written for a collection that is not fully
\* built, and the site index is not written.
C5_LatestFailureFatal ==
  /\ call.raised \in {"mkdir", "read", "pandoc"} =>
       \/ art.active /\ art.raising /\ art.step \in {"finally", "exit"}
       \/ Quiet /\ phase = "aborted"
  /\ (phase = "aborted" /\ log.cause \in {"mkdir", "read", "pandoc"}) =>
       /\ Quiet
       /\ log.started # <<>>
       /\ log.started[Len(log.started)] = log.culprit
       /\ log.started = SubSeq(BuildOrder, 1, Len(log.started))
       /\ log.culprit \notin log.vindex
       /\ \A c \in log.cindex : Range(CollectionTex(c)) \subseteq log.vindex
       /\ ~log.site
       /\ IF Exists(prev.tree, SiteIndex)
          THEN Exists(fs, SiteIndex) /\ fs[SiteIndex] = prev.tree[SiteIndex]
          ELSE ~Exists(fs, SiteIndex)

\* C5 witness: pandoc failed on the latest.html of the second member of
\* collection s; later members, the collection indexes and the site index
\* were not reached
C5_Witness ==
  /\ phase = "aborted"
  /\ log.cause = "pandoc"
  /\ log.culprit = CollDoc(<< "s" >>, "m1")
  /\ log.cindex = {}
  /\ ~Exists(fs, Path(<< "docs", "collections", "s" >>, IndexName))

\* ---- C6
\* where a relative link of a file in directory dir leads
Resolve(dir, h) ==
  IF h.up <= Len(dir)
  THEN Path(SubSeq(dir, 1, Len(dir) - h.up) \o h.down, h.name)
  ELSE Path(<< ".." >> \o h.down, h.name)

\* both fragment files of the collection member being built are on disk
HasFragments ==
  art.active /\ art.has_nav /\ art.step \in {"versions", "finally"}

TopParts == fs[Path(art.output_dir, NavTopName)].parts
BottomParts == fs[Path(art.output_dir, NavBottomName)].parts

Tagged(parts, tag) == {j \in DOMAIN parts : parts[j].tag = tag}

\* the fragment links to doc's latest.html under this tag, once
LinksTo(parts, tag, doc) ==
  /\ Cardinality(Tagged(parts, tag)) = 1
  /\ \A j \in Tagged(parts, tag) :
       /\ parts[j].name = doc.stem
       /\ Resolve(art.output_dir, parts[j].href)
            = Path(OutputDir(doc, TRUE), LatestName)

\* C6: the fragments of member i of an N-member collection (members in path
\* order) hold a Previous link exactly when i > 0, leading to member i-1, and
\* a Next link exactly when i < N-1, leading to member i+1.
C6_PrevNextAtBoundaries ==
  HasFragments =>
    LET members == CollectionTex(CollectionNames[ci])
    IN \A parts \in {TopParts, BottomParts} :
         /\ IF mi > 1 THEN LinksTo(parts, "prev", members[mi - 1])
                      ELSE Tagged(parts, "prev") = {}
         /\ IF mi < Len(members) THEN LinksTo(parts, "next", members[mi + 1])
                                 ELSE Tagged(parts, "next") = {}
         /\ Cardinality(Tagged(parts, "cindex")) = 1

\* C6 witness: the middle member of the three-member collection has both links
C6_Witness ==
  /\ HasFragments
  /\ Len(CollectionTex(CollectionNames[ci])) = 3 /\ mi = 2
  /\ Tagged(TopParts, "prev") # {} /\ Tagged(TopParts, "next") # {}

\* ---- C7
IndexedNames(dir) ==
  LET list == fs[Path(dir, IndexName)].list
  IN [j \in DOMAIN list |-> list[j].href.name]

\* C7: the version index just generated lists the .html files of the output
\* directory other than index.html and latest.html, each once, in descending
\* order of file name, each linked by its name in the same directory.
C7_VersionIndexListing ==
  Completed =>
    LET names == IndexedNames(art.output_dir)
        list == fs[Path(art.output_dir, IndexName)].list
    IN /\ Range(names) = HtmlFiles(fs, art.output_dir) \ {IndexName, LatestName}
       /\ \A j, k \in DOMAIN names : j < k => StrLess(names[k], names[j])
       /\ \A j \in DOMAIN list :
            /\ list[j].href = Href(0, <<>>, names[j])
            /\ list[j].version \o << DotHtml >> = names[j]

\* C7 witness: an index of two revision pages, the newer slug first
C7_Witness ==
  /\ Completed
  /\ Len(IndexedNames(art.output_dir)) = 2
  /\ IndexedNames(art.output_dir)[1]
       = PageName(<< Tok("date", 2), Tok("T", 0), Tok("num", 11), Tok("colon", 0),
                     Tok("num", 30) >>)

\* ---- C8
\* the revision of a tracked document with the greatest timestamp
Newest(d) ==
  CHOOSE r \in Range(GitLog(d)) : \A q \in Range(GitLog(d)) : ~StrLess(r[2], q[2])

\* latest.html has been rendered by the running call
LatestRendered == art.active /\ LatestName \in call.wrote

\* C8: the latest.html just rendered carries the date part of the newest
\* revision's timestamp when get_git_history returned revisions, the build
\* date when it returned none, and its body is the working-tree text.
C8_LatestDate ==
  LatestRendered =>
    LET page == fs[Path(art.output_dir, LatestName)]
    IN /\ page.body = WorkingTree(art.doc)
       /\ page.title = art.doc.stem
       /\ IF art.versions # <<>>
          THEN page.date = << Newest(art.doc)[2][1] >>
          ELSE page.date = << Tok("date", call.now) >>
       /\ art.versions # <<>>
            <=> (Tracked(art.doc) /\ Op("git", art.doc, 0) \notin failed)

\* C8 witness: a document whose two revisions are of different days
C8_Witness ==
  /\ LatestRendered
  /\ Len(art.versions) = 2
  /\ art.versions[1][2][1] # art.versions[2][2][1]
  /\ fs[Path(art.output_dir, LatestName)].date = << Tok("date", 2) >>

\* ---- C9
\* C9: get_git_history hands build_article a list and never an exception:
\* the revisions oldest first when the query works, the empty list for an
\* untracked file and when the query fails; no exception that leaves
\* build_article or run() comes from it.
C9_HistoryNeverRaises ==
  /\ (art.active /\ art.step \notin {"mkdir", "history"} /\ call.raised # "mkdir") =>
       IF Tracked(art.doc) /\ Op("git", art.doc, 0) \notin failed
       THEN /\ Len(art.versions) = Len(GitLog(art.doc))
            /\ \A j \in DOMAIN art.versions :
                 art.versions[j] = GitLog(art.doc)[Len(GitLog(art.doc)) + 1 - j]
       ELSE art.versions = <<>>
  /\ (art.active /\ art.raising) => call.raised \in {"mkdir", "nav", "read", "pandoc"}
  /\ phase = "aborted" => log.cause \in {"mkdir", "nav", "read", "pandoc"}
  /\ (phase = "done" /\ \E d \in AllDocs : Op("git", d, 0) \in failed) =>
       log.started = BuildOrder /\ log.site

\* C9 witness: the history query of a tracked document failed, its latest.html
\* is dated with the build date, and the build completed
C9_Witness ==
  /\ phase = "done"
  /\ Op("git", CollDoc(<< "s" >>, "m2"), 0) \in failed
  /\ Pages(fs, << "docs", "collections", "s", "m2" >>) = {LatestName}

\* ---- C10
RuleAbove(parts) ==
  \E j \in Tagged(parts, "hr") : \A k \in Tagged(parts, "nav") : j < k
RuleBelow(parts) ==
  \E j \in Tagged(parts, "hr") : \A k \in Tagged(parts, "/nav") : j > k

\* C10 (as stated): the rule is below the navigation block in the bottom
\* fragment and above it in the top fragment.
C10_RuleBelowAtBottom ==
  HasFragments =>
    /\ RuleBelow(BottomParts) /\ ~RuleAbove(BottomParts)
    /\ RuleAbove(TopParts) /\ ~RuleBelow(TopParts)

\* C10 (amended): the one rule of a fragment is above the navigation block in
\* the bottom fragment and below it in the top fragment (in both it lies
\* between the block and the article body).
C10_RuleTowardsBody ==
  HasFragments =>
    /\ RuleAbove(BottomParts) /\ ~RuleBelow(BottomParts)
    /\ RuleBelow(TopParts) /\ ~RuleAbove(TopParts)
    /\ Cardinality(Tagged(BottomParts, "hr")) = 1
    /\ Cardinality(Tagged(TopParts, "hr")) = 1
    /\ Cardinality(Tagged(BottomParts, "nav")) = 1
    /\ Cardinality(Tagged(TopParts, "/nav")) = 1

\* C10 witness: a page of a collection member is rendered with both fragments
C10_Witness ==
  /\ HasFragments
  /\ LatestRendered
  /\ fs[Path(art.output_dir, LatestName)].before = TopParts
  /\ fs[Path(art.output_dir, LatestName)].after = BottomParts
  /\ TopParts[Len(TopParts)] = Rule
  /\ BottomParts[1] = Rule

\* ---- C11
OutputDirOf(d) == OutputDir(d, d.root = "collections")

\* the file was written by this run, the first on an empty tree
Fresh(p) == runs = 1 /\ Exists(fs, p)

\* C11: a version index is written only after every revision and latest.html
\* of its article were attempted; a collection index only after build_article
\* has returned for every member of the collection; the site index only after
\* every post and every collection is built.
C11_IndexesAfterRendering ==
  /\ (art.active /\ art.doc \in log.vindex) =>
       /\ art.step = "exit" /\ ~art.raising
       /\ call.attempted = (1 .. Len(art.versions)) \cup {0}
       /\ LatestName \in call.wrote
  /\ \A c \in log.cindex :
       /\ Range(CollectionTex(c)) \subseteq log.vindex
       /\ art.active => art.doc \notin Range(CollectionTex(c))
  /\ log.site =>
       /\ Quiet
       /\ log.started = BuildOrder
       /\ log.vindex = AllDocs
       /\ log.cindex = Range(CollectionNames)
  /\ \A d \in AllDocs :
       Fresh(Path(OutputDirOf(d), IndexName)) =>
         Exists(fs, Path(OutputDirOf(d), LatestName))
  /\ \A c \in Range(CollectionNames) :
       Fresh(Path(<< "docs", "collections", c >>, IndexName)) =>
         \A d \in Range(CollectionTex(c)) :
           /\ Exists(fs, Path(OutputDirOf(d), IndexName))
           /\ fs[Path(OutputDirOf(d), LatestName)].body.doc \in Range(CollectionTex(c))
  /\ Fresh(SiteIndex) =>
       /\ \A d \in AllDocs : Exists(fs, Path(OutputDirOf(d), IndexName))
       /\ \A c \in Range(CollectionNames) :
            Exists(fs, Path(<< "docs", "collections", c >>, IndexName))

\* C11 witness: the first build has written the site index, after everything
C11_Witness ==
  /\ Fresh(SiteIndex)
  /\ log.site
  /\ log.skips # {}

\* ---- C12
\* YYYY-MM-DDTHH:MM of a commit date
MinuteSlug(cd) == << cd[1], Tok("T", 0), cd[3], Tok("colon", 0), cd[5] >>

\* the last rendered revision that has the slug of revision k
LastWithSlug(k) ==
  MaxOf({j \in Rendered :
           MinuteSlug(art.versions[j][2]) = MinuteSlug(art.versions[k][2])})

\* C12: the page of a rendered revision is named by the date, a T, and the
\* hour and minute of its timestamp (no seconds, no offset); revisions of the
\* same minute share the file, which holds the text of the last of them that
\* was rendered, and the revisions are rendered oldest first.
C12_SlugAndOverwrite ==
  Completed =>
    /\ \A i, j \in DOMAIN art.versions :
         i < j => ~StrLess(art.versions[j][2], art.versions[i][2])
    /\ \A k \in Rendered :
         LET p == Path(art.output_dir, MinuteSlug(art.versions[k][2]) \o << DotHtml >>)
             last == art.versions[LastWithSlug(k)]
         IN /\ Exists(fs, p)
            /\ fs[p].body = Blob(art.doc, last[1])
            /\ fs[p].date = << last[2][1] >>
    /\ Cardinality(Pages(fs, art.output_dir) \ Kept(call.before))
         <= Cardinality({MinuteSlug(art.versions[k][2]) : k \in Rendered}) + 1

\* C12 witness: two revisions of one minute, both rendered, one page, which
\* holds the text of the later commit
C12_Witness ==
  /\ Completed
  /\ Len(art.versions) = 2 /\ call.skipped = {}
  /\ MinuteSlug(art.versions[1][2]) = MinuteSlug(art.versions[2][2])
  /\ art.versions[1][2] # art.versions[2][2]
  /\ Cardinality(Pages(fs, art.output_dir)) = 2
  /\ fs[Path(art.output_dir, PageName(MinuteSlug(art.versions[1][2])))].body
       = Blob(art.doc, 3)

\* ---- C13
\* C13: while build_article renders a standalone post, the back link of its
\* bottom navigation fragment resolves from the output directory of the post
\* to docs/index.html, and so does the back link of its version index once
\* the call has completed.
C13_BackLinkToSiteIndex ==
  (art.active /\ ~art.is_collection) =>
    /\ (art.step \in {"versions", "finally"}
          /\ Exists(fs, Path(art.output_dir, NavBottomName))) =>
         \A j \in Tagged(BottomParts, "back") :
           Resolve(art.output_dir, BottomParts[j].href) = SiteIndex
    /\ Completed =>
         Resolve(art.output_dir, fs[Path(art.output_dir, IndexName)].back)
           = SiteIndex

\* ---- C14
\* C14: the documents whose build_article call has completed in a run have
\* pairwise distinct output directories, and the latest.html and version index in the directory of a
\* document built in this run are the ones written for that document.
C14_NoSharedOutputDir ==
  /\ \A d, e \in log.vindex : d # e => OutputDirOf(d) # OutputDirOf(e)
  /\ \A d \in log.vindex :
       /\ Exists(fs, Path(OutputDirOf(d), LatestName))
       /\ fs[Path(OutputDirOf(d), LatestName)].body.doc = d
       /\ fs[Path(OutputDirOf(d), IndexName)].title = d.stem
       /\ \A n \in Pages(fs, OutputDirOf(d)) :
            fs[Path(OutputDirOf(d), n)].body.doc = d

====
